---- MODULE Spec2Model ----
(***************************************************************************)
(* A model of package diff (mb0/diff): Diff on the Ints adapter, i.e. the  *)
(* divide-and-conquer driver compare, the bidirectional middle snake       *)
(* search findMiddleSnake and the edit script builder result.              *)
(*                                                                         *)
(* The Go call stack of compare is the variable stack (the call that runs  *)
(* next is its head).  Go slices are functions over 0..len-1, so that the  *)
(* indices of the model are the indices of the code.  A Go runtime panic   *)
(* (index out of range) and the explicit panic of findMiddleSnake end the  *)
(* run in pc = "panic" with the reason in err.                             *)
(***************************************************************************)
EXTENDS Integers, Sequences, FiniteSets, TLC

VARIABLES
    a,        \* Ints[0], the first input sequence (1-based TLA+ sequence)
    b,        \* Ints[1], the second input sequence
    pc,       \* "compare", "snake", "result", "done" or "panic"
    stack,    \* pending compare calls, head first
    flags,    \* context.flags: element bits 1 delete, 2 insert
    forward,  \* context.forward, <<>> while nil
    reverse,  \* context.reverse, <<>> while nil
    res,      \* the []Change returned by Diff
    err,      \* the panic message, "" while none
    snake,    \* the latest findMiddleSnake call (the nth of the run) and
              \* the point (x, y) and radius d it returned
    eqcalls,  \* the (a, b) arguments of every Equal call of this run
    bufidx,   \* the indices used on forward and reverse in this run
    allocs,   \* how many times the buffers were allocated in this run
    run,      \* 1: Diff(A, B) of TestDiffAB, 2: Diff(B, A) of TestDiffBA
    first     \* the result of run 1, kept for run 2

vars == <<a, b, pc, stack, flags, forward, reverse, res, err, snake,
          eqcalls, bufidx, allocs, run, first>>

----------------------------------------------------------------------------
(* Bounds of the model: the inputs are all sequences over Alphabet up to a *)
(* given length.                                                           *)

MaxN == 3
MaxM == 3
LongN == 6
LongM == 5
RunsN == 5
RunsM == 4
BufN == 5
BufM == 5

Alphabet == {0, 1, 2}
Binary == {0, 1}

SeqsUpTo(S, n) == UNION {[1..k -> S] : k \in 0..n}

NonDecreasing(s) == \A i \in 1..(Len(s) - 1) : s[i] <= s[i + 1]

----------------------------------------------------------------------------
(* Ints: the adapter of two int slices.                                    *)

N == Len(a)

M == Len(b)

InRange(i, j) == 0 <= i /\ i < N /\ 0 <= j /\ j < M

Equal(i, j) == a[i + 1] = b[j + 1]

(* Go's integer division truncates toward zero. *)
Quo(x, y) == IF x >= 0 THEN x \div y ELSE -((-x) \div y)

BitSet(v, bit) == (v \div bit) % 2 = 1

Or(v, bit) == IF BitSet(v, bit) THEN v ELSE v + bit

(* Change{a, b, y - b, x - a}: the two counts in the wrong fields. *)
ChangeSwapped(ca, cb, del, ins) ==
    [A |-> ca, B |-> cb, Del |-> ins, Ins |-> del]

Change(ca, cb, del, ins) == [A |-> ca, B |-> cb, Del |-> del, Ins |-> ins]

----------------------------------------------------------------------------
(* Diff: the context built before the first compare call.                  *)

max == N + M + 1

FlagsLen(n, m) == IF n > m THEN n ELSE m

NewFlags(n, m) == [i \in 0..(FlagsLen(n, m) - 1) |-> 0]

(* make([]int, c.max): room for the diagonals of one side only. *)
BufLenHalf(cmax) == cmax

BufLen(cmax) == 2 * cmax

NewBuffer(cmax) == [i \in 0..(BufLen(cmax) - 1) |-> 0]

Rect(ao, bo, al, bl) ==
    [aoffset |-> ao, boffset |-> bo, alimit |-> al, blimit |-> bl]

NoSnake ==
    [called |-> FALSE, aoffset |-> 0, boffset |-> 0, alimit |-> 0,
     blimit |-> 0, x |-> 0, y |-> 0, d |-> 0, maxd |-> 0, nth |-> 0]

----------------------------------------------------------------------------
(* The two loops that walk a diagonal while Equal holds.  Each returns the *)
(* row it stopped at, the Equal calls it made, and whether one of them had *)
(* an index out of range (Ints.Equal then panics).                         *)

RECURSIVE Advance(_, _, _, _)
Advance(x, y, xlimit, ylimit) ==
    IF x < xlimit /\ y < ylimit
    THEN IF ~InRange(x, y)
         THEN [x |-> x, calls |-> {<<x, y>>}, panic |-> TRUE]
         ELSE IF Equal(x, y)
              THEN LET r == Advance(x + 1, y + 1, xlimit, ylimit)
                   IN  [r EXCEPT !.calls = @ \cup {<<x, y>>}]
              ELSE [x |-> x, calls |-> {<<x, y>>}, panic |-> FALSE]
    ELSE [x |-> x, calls |-> {}, panic |-> FALSE]

RECURSIVE Retreat(_, _, _, _)
Retreat(x, y, xoffset, yoffset) ==
    IF x > xoffset /\ y > yoffset
    THEN IF ~InRange(x - 1, y - 1)
         THEN [x |-> x, calls |-> {<<x - 1, y - 1>>}, panic |-> TRUE]
         ELSE IF Equal(x - 1, y - 1)
              THEN LET r == Retreat(x - 1, y - 1, xoffset, yoffset)
                   IN  [r EXCEPT !.calls = @ \cup {<<x - 1, y - 1>>}]
              ELSE [x |-> x, calls |-> {<<x - 1, y - 1>>}, panic |-> FALSE]
    ELSE [x |-> x, calls |-> {}, panic |-> FALSE]

----------------------------------------------------------------------------
(* findMiddleSnake.  st is the state of one call: the two buffers, the     *)
(* Equal calls and buffer indices used so far, and status: "run" inside    *)
(* the loops, "ret" once a return statement ran (x, y, d hold the point    *)
(* and the radius), "index" after an index out of range.                   *)

SnakeParams(r) ==
    [aoffset |-> r.aoffset, boffset |-> r.boffset,
     alimit |-> r.alimit, blimit |-> r.blimit,
     fmid |-> r.aoffset - r.boffset,
     rmid |-> r.alimit - r.blimit,
     foff |-> max - (r.aoffset - r.boffset),
     roff |-> max - (r.alimit - r.blimit),
     isodd |-> ((r.alimit - r.blimit) - (r.aoffset - r.boffset)) % 2 = 1,
     maxd |-> Quo(r.alimit - r.aoffset + r.blimit - r.boffset + 2, 2)]

Fault(st, used, calls) ==
    [st EXCEPT !.status = "index", !.idx = @ \cup used,
               !.calls = @ \cup calls]

ForwardDown(fwd, i) == fwd[i + 1] < fwd[i - 1]

ForwardStep(st, p, d, k) ==
    LET i == p.foff + k
        lower == k = p.fmid - d
        upper == k = p.fmid + d
        reads == IF lower THEN {i + 1}
                 ELSE IF upper THEN {i - 1} ELSE {i + 1, i - 1}
    IN  IF ~(reads \subseteq DOMAIN st.forward)
        THEN Fault(st, reads, {})
        ELSE
        LET down == lower \/ (~upper /\ ForwardDown(st.forward, i))
            x0 == IF down THEN st.forward[i + 1] ELSE st.forward[i - 1] + 1
            sn == Advance(x0, x0 - k, p.alimit, p.blimit)
            chk == p.isodd /\ k > p.rmid - d /\ k < p.rmid + d
            j == p.roff + k
            used == reads \cup {i} \cup (IF chk THEN {j} ELSE {})
        IN  IF sn.panic \/ i \notin DOMAIN st.forward
            THEN Fault(st, reads \cup {i}, sn.calls)
            ELSE IF chk /\ j \notin DOMAIN st.reverse
            THEN Fault(st, used, sn.calls)
            ELSE
            LET f2 == [st.forward EXCEPT ![i] = sn.x]
                s2 == [st EXCEPT !.forward = f2, !.idx = @ \cup used,
                                 !.calls = @ \cup sn.calls]
            IN  IF chk /\ st.reverse[j] <= f2[i]
                THEN [s2 EXCEPT !.status = "ret", !.x = sn.x,
                                !.y = sn.x - k, !.d = d]
                ELSE s2

ReverseUp(rev, i) == rev[i - 1] < rev[i + 1]

ReverseStep(st, p, d, k) ==
    LET i == p.roff + k
        upper == k = p.rmid + d
        lower == k = p.rmid - d
        reads == IF upper THEN {i - 1}
                 ELSE IF lower THEN {i + 1} ELSE {i - 1, i + 1}
    IN  IF ~(reads \subseteq DOMAIN st.reverse)
        THEN Fault(st, reads, {})
        ELSE
        LET up == upper \/ (~lower /\ ReverseUp(st.reverse, i))
            x0 == IF up THEN st.reverse[i - 1] ELSE st.reverse[i + 1] - 1
            sn == Retreat(x0, x0 - k, p.aoffset, p.boffset)
            chk == ~p.isodd /\ k >= p.fmid - d /\ k <= p.fmid + d
            j == p.foff + k
            used == reads \cup {i} \cup (IF chk THEN {j} ELSE {})
        IN  IF sn.panic \/ i \notin DOMAIN st.reverse
            THEN Fault(st, reads \cup {i}, sn.calls)
            ELSE IF chk /\ j \notin DOMAIN st.forward
            THEN Fault(st, used, sn.calls)
            ELSE
            LET r2 == [st.reverse EXCEPT ![i] = sn.x]
                s2 == [st EXCEPT !.reverse = r2, !.idx = @ \cup used,
                                 !.calls = @ \cup sn.calls]
            IN  IF chk /\ r2[i] <= st.forward[j]
                THEN [s2 EXCEPT !.status = "ret", !.x = st.forward[j],
                                !.y = st.forward[j] - k, !.d = d]
                ELSE s2

RECURSIVE ForwardSearch(_, _, _, _)
ForwardSearch(st, p, d, k) ==
    IF st.status # "run" \/ k > p.fmid + d
    THEN st
    ELSE ForwardSearch(ForwardStep(st, p, d, k), p, d, k + 2)

RECURSIVE ReverseSearch(_, _, _, _)
ReverseSearch(st, p, d, k) ==
    IF st.status # "run" \/ k > p.rmid + d
    THEN st
    ELSE ReverseSearch(ReverseStep(st, p, d, k), p, d, k + 2)

RECURSIVE SearchRadius(_, _, _)
SearchRadius(st, p, d) ==
    IF st.status # "run"
    THEN st
    ELSE IF d > p.maxd
         THEN [st EXCEPT !.status = "never"]
         ELSE LET s1 == ForwardSearch(st, p, d, p.fmid - d)
                  s2 == ReverseSearch(s1, p, d, p.rmid - d)
              IN  SearchRadius(s2, p, d + 1)

findMiddleSnake(fwd, rev, r) ==
    LET p == SnakeParams(r)
        f0 == IF fwd = <<>> THEN NewBuffer(max) ELSE fwd
        r0 == IF fwd = <<>> THEN NewBuffer(max) ELSE rev
        st0 == [forward |-> f0, reverse |-> r0, calls |-> {},
                idx |-> {max + 1, max - 1}, status |-> "run",
                x |-> 0, y |-> 0, d |-> 0]
    IN  IF (max + 1) \notin DOMAIN f0 \/ (max - 1) \notin DOMAIN r0
        THEN [st0 EXCEPT !.status = "index"]
        ELSE SearchRadius([st0 EXCEPT !.forward[max + 1] = r.aoffset,
                                      !.reverse[max - 1] = r.alimit], p, 0)

----------------------------------------------------------------------------
(* compare up to its call of findMiddleSnake: affix trimming and the two   *)
(* base cases.                                                             *)

EatPrefix(r) == Advance(r.aoffset, r.boffset, r.alimit, r.blimit)

EatSuffix(r, aoffset, boffset) == Retreat(r.alimit, r.blimit, aoffset, boffset)

Trim(r) ==
    LET pre == EatPrefix(r)
        bo == r.boffset + (pre.x - r.aoffset)
    IN  IF pre.panic
        THEN [rect |-> r, calls |-> pre.calls, panic |-> TRUE]
        ELSE LET suf == EatSuffix(r, pre.x, bo)
             IN  [rect |-> Rect(pre.x, bo, suf.x,
                                r.blimit - (r.alimit - suf.x)),
                  calls |-> pre.calls \cup suf.calls,
                  panic |-> suf.panic]

(* flags[i] |= bit for from <= i < to *)
Mark(fl, from, to, bit) ==
    [i \in DOMAIN fl |-> IF from <= i /\ i < to THEN Or(fl[i], bit) ELSE fl[i]]

MarkInRange(fl, from, to) == \A i \in from..(to - 1) : i \in DOMAIN fl

----------------------------------------------------------------------------
(* result: the scan of the marks that builds the Change list.              *)

RECURSIVE SkipDeleted(_, _, _, _, _)
SkipDeleted(fl, n, m, x, y) ==
    IF x < n /\ (y >= m \/ BitSet(fl[x], 1))
    THEN SkipDeleted(fl, n, m, x + 1, y)
    ELSE x

RECURSIVE SkipInserted(_, _, _, _, _)
SkipInserted(fl, n, m, x, y) ==
    IF y < m /\ (x >= n \/ BitSet(fl[y], 2))
    THEN SkipInserted(fl, n, m, x, y + 1)
    ELSE y

RECURSIVE ResultLoop(_, _, _, _, _, _)
ResultLoop(fl, n, m, x, y, out) ==
    IF ~(x < n \/ y < m)
    THEN out
    ELSE IF x < n /\ y < m /\ ~BitSet(fl[x], 1) /\ ~BitSet(fl[y], 2)
         THEN ResultLoop(fl, n, m, x + 1, y + 1, out)
         ELSE LET x2 == SkipDeleted(fl, n, m, x, y)
                  y2 == SkipInserted(fl, n, m, x2, y)
              IN  ResultLoop(fl, n, m, x2, y2,
                             IF x < x2 \/ y < y2
                             THEN Append(out, Change(x, y, x2 - x, y2 - y))
                             ELSE out)

result(fl, n, m) == ResultLoop(fl, n, m, 0, 0, <<>>)

----------------------------------------------------------------------------
(* The state machine.                                                      *)

Start(A, B) ==
    /\ a = A
    /\ b = B
    /\ pc = "compare"
    /\ stack = <<Rect(0, 0, Len(A), Len(B))>>
    /\ flags = NewFlags(Len(A), Len(B))
    /\ forward = <<>>
    /\ reverse = <<>>
    /\ res = <<>>
    /\ err = ""
    /\ snake = NoSnake
    /\ eqcalls = {}
    /\ bufidx = {}
    /\ allocs = 0

Init ==
    /\ \E A \in SeqsUpTo(Alphabet, MaxN), B \in SeqsUpTo(Alphabet, MaxM) :
           Start(A, B)
    /\ run = 1
    /\ first = <<>>

InitLong ==
    /\ \E A \in SeqsUpTo(Binary, LongN), B \in SeqsUpTo(Binary, LongM) :
           Start(A, B)
    /\ run = 1
    /\ first = <<>>

InitRuns ==
    /\ \E A \in {s \in SeqsUpTo(Alphabet, RunsN) : NonDecreasing(s)},
          B \in SeqsUpTo(Alphabet, RunsM) :
           Start(A, B)
    /\ run = 1
    /\ first = <<>>

InitBuf ==
    /\ \E A \in SeqsUpTo(Binary, BufN), B \in SeqsUpTo(Binary, BufM) :
           Start(A, B)
    /\ run = 1
    /\ first = <<>>

Return == IF Len(stack) = 1 THEN "result" ELSE "compare"

Panic(msg) ==
    /\ pc' = "panic"
    /\ err' = msg
    /\ UNCHANGED <<stack, flags, res>>

(* compare: one call, from its entry to its return or to its call of      *)
(* findMiddleSnake.                                                        *)
Compare ==
    /\ pc = "compare"
    /\ LET t == Trim(Head(stack))
           r == t.rect
       IN  /\ eqcalls' = eqcalls \cup t.calls
           /\ IF t.panic
              THEN Panic("index out of range")
              ELSE IF r.aoffset = r.alimit
              THEN IF MarkInRange(flags, r.boffset, r.blimit)
                   THEN /\ flags' = Mark(flags, r.boffset, r.blimit, 2)
                        /\ stack' = Tail(stack)
                        /\ pc' = Return
                        /\ UNCHANGED <<res, err>>
                   ELSE Panic("index out of range")
              ELSE IF r.boffset = r.blimit
              THEN IF MarkInRange(flags, r.aoffset, r.alimit)
                   THEN /\ flags' = Mark(flags, r.aoffset, r.alimit, 1)
                        /\ stack' = Tail(stack)
                        /\ pc' = Return
                        /\ UNCHANGED <<res, err>>
                   ELSE Panic("index out of range")
              ELSE /\ stack' = <<r>> \o Tail(stack)
                   /\ pc' = "snake"
                   /\ UNCHANGED <<flags, res, err>>
    /\ UNCHANGED <<a, b, forward, reverse, snake, bufidx, allocs, run, first>>

(* The call of findMiddleSnake by compare and the two recursive calls it   *)
(* leads to.                                                               *)
FindMiddleSnake ==
    /\ pc = "snake"
    /\ LET r == Head(stack)
           st == findMiddleSnake(forward, reverse, r)
       IN  /\ forward' = st.forward
           /\ reverse' = st.reverse
           /\ allocs' = IF forward = <<>> THEN allocs + 1 ELSE allocs
           /\ eqcalls' = eqcalls \cup st.calls
           /\ bufidx' = bufidx \cup st.idx
           /\ IF st.status = "ret"
              THEN /\ snake' = [called |-> TRUE,
                                aoffset |-> r.aoffset, boffset |-> r.boffset,
                                alimit |-> r.alimit, blimit |-> r.blimit,
                                x |-> st.x, y |-> st.y, d |-> st.d,
                                maxd |-> SnakeParams(r).maxd,
                                nth |-> snake.nth + 1]
                   /\ stack' = <<Rect(r.aoffset, r.boffset, st.x, st.y),
                                 Rect(st.x, st.y, r.alimit, r.blimit)>>
                               \o Tail(stack)
                   /\ pc' = "compare"
                   /\ UNCHANGED <<flags, res, err>>
              ELSE /\ Panic(IF st.status = "never"
                            THEN "should never be reached"
                            ELSE "index out of range")
                   /\ UNCHANGED snake
    /\ UNCHANGED <<a, b, run, first>>

(* c.result(n, m), the return value of Diff. *)
Result ==
    /\ pc = "result"
    /\ res' = result(flags, N, M)
    /\ pc' = "done"
    /\ UNCHANGED <<a, b, stack, flags, forward, reverse, err, snake,
                   eqcalls, bufidx, allocs, run, first>>

(* TestDiffBA: the same fixture diffed the other way round, in a context   *)
(* of its own.                                                             *)
TestDiffBA ==
    /\ pc = "done"
    /\ run = 1
    /\ run' = 2
    /\ first' = res
    /\ a' = b
    /\ b' = a
    /\ pc' = "compare"
    /\ stack' = <<Rect(0, 0, Len(b), Len(a))>>
    /\ flags' = NewFlags(Len(b), Len(a))
    /\ forward' = <<>>
    /\ reverse' = <<>>
    /\ res' = <<>>
    /\ err' = ""
    /\ snake' = NoSnake
    /\ eqcalls' = {}
    /\ bufidx' = {}
    /\ allocs' = 0

Next == Compare \/ FindMiddleSnake \/ Result \/ TestDiffBA

Spec == Init /\ [][Next]_vars

SpecLong == InitLong /\ [][Next]_vars

SpecRuns == InitRuns /\ [][Next]_vars

SpecBuf == InitBuf /\ [][Next]_vars

----------------------------------------------------------------------------
(* Reference definitions the properties are stated with.                   *)

Greater(x, y) == IF x > y THEN x ELSE y

Smaller(x, y) == IF x < y THEN x ELSE y

(* the length of a longest common subsequence of s and t *)
LCS(s, t) ==
    LET L[i \in 0..Len(s), j \in 0..Len(t)] ==
            IF i = 0 \/ j = 0 THEN 0
            ELSE IF s[i] = t[j] THEN L[i - 1, j - 1] + 1
            ELSE Greater(L[i - 1, j], L[i, j - 1])
    IN  L[Len(s), Len(t)]

EditDistance(s, t) == Len(s) + Len(t) - 2 * LCS(s, t)

(* elements lo .. hi-1 (0-based, hi exclusive) of s *)
Slice(s, lo, hi) == SubSeq(s, lo + 1, hi)

RECURSIVE PatchFrom(_, _, _)
PatchFrom(cs, i, pos) ==
    IF i > Len(cs)
    THEN Slice(a, pos, N)
    ELSE Slice(a, pos, cs[i].A)
         \o Slice(b, cs[i].B, cs[i].B + cs[i].Ins)
         \o PatchFrom(cs, i + 1, cs[i].A + cs[i].Del)

(* A with every Change of cs applied in one pass from left to right *)
Patch(cs) == PatchFrom(cs, 1, 0)

RECURSIVE TotalFrom(_, _)
TotalFrom(cs, i) ==
    IF i > Len(cs) THEN 0 ELSE cs[i].Del + cs[i].Ins + TotalFrom(cs, i + 1)

Total(cs) == TotalFrom(cs, 1)

RECURSIVE Pick(_, _, _)
Pick(s, S, i) ==
    IF i > Len(s) THEN <<>>
    ELSE (IF i \in S THEN <<s[i]>> ELSE <<>>) \o Pick(s, S, i + 1)

(* the minimum-size choices of kept positions of s and of t *)
ShortestScripts(s, t) ==
    {p \in (SUBSET (1..Len(s))) \X (SUBSET (1..Len(t))) :
        /\ Cardinality(p[1]) = LCS(s, t)
        /\ Cardinality(p[2]) = LCS(s, t)
        /\ Pick(s, p[1], 1) = Pick(t, p[2], 1)}

UniqueScript(s, t) == Cardinality(ShortestScripts(s, t)) = 1

Swapped(cs) ==
    [i \in 1..Len(cs) |->
        [A |-> cs[i].B, B |-> cs[i].A, Del |-> cs[i].Ins, Ins |-> cs[i].Del]]

CommonPrefixLen(s, t) ==
    Cardinality({k \in 1..Smaller(Len(s), Len(t)) :
                    \A i \in 1..k : s[i] = t[i]})

(* t is s with one block of Len(t) - Len(s) > 0 elements inserted *)
BlockInserted(s, t) ==
    /\ Len(t) > Len(s)
    /\ \E q \in 0..Len(s) :
           s = Slice(t, 0, q) \o Slice(t, q + Len(t) - Len(s), Len(t))

----------------------------------------------------------------------------
(* C1: whenever Diff returns, applying its Change list to A in one pass    *)
(* from left to right (replace A[c.A .. c.A+c.Del) by B[c.B .. c.B+c.Ins), *)
(* copy the rest) yields exactly B.                                        *)
C1_Reconstruction == pc = "done" => Patch(res) = b

(* C2: the sum of Del+Ins over the returned Changes is the edit distance   *)
(* N + M - 2*LCS(A, B).                                                    *)
C2_Minimality == pc = "done" => Total(res) = EditDistance(a, b)

(* C3: two consecutive Changes are separated by the same number, at least  *)
(* one, of unchanged elements on the A side and on the B side.             *)
C3_Separation ==
    pc = "done" =>
        \A i \in 1..(Len(res) - 1) :
            /\ res[i + 1].A - (res[i].A + res[i].Del)
                   = res[i + 1].B - (res[i].B + res[i].Ins)
            /\ res[i + 1].A - (res[i].A + res[i].Del) >= 1

(* C4: every Equal(a, b) call of a run has 0 <= a < N and 0 <= b < M, and  *)
(* so there is none when N = 0 or M = 0.                                   *)
C4_EqualInRange == \A c \in eqcalls : InRange(c[1], c[2])

(* C5: findMiddleSnake always returns from inside its loop, at a radius    *)
(* d <= maxd; panic("should never be reached") is never executed.          *)
C5_NeverReached ==
    /\ err # "should never be reached"
    /\ snake.called => snake.d <= snake.maxd

(* C6: when the shortest edit script of (A, B) is unique, Diff(B, A)       *)
(* returns the Change list of Diff(A, B) with the roles swapped.           *)
C6_Symmetry ==
    (run = 2 /\ pc \in {"done", "panic"} /\ UniqueScript(b, a)) =>
        (pc = "done" /\ res = Swapped(first))

(* C7: if B is A with one block of L elements inserted, Diff returns the   *)
(* single Change {p, p, 0, L}, p the length of the common prefix; if B is  *)
(* A with one block of L elements removed, the single Change {p, p, L, 0}. *)
C7_SingleBlock ==
    pc = "done" =>
        LET p == CommonPrefixLen(a, b)
        IN  /\ BlockInserted(a, b) =>
                   res = <<[A |-> p, B |-> p, Del |-> 0, Ins |-> M - N]>>
            /\ BlockInserted(b, a) =>
                   res = <<[A |-> p, B |-> p, Del |-> N - M, Ins |-> 0]>>

(* Diff has returned for a B that is A with one element inserted strictly  *)
(* inside it                                                               *)
C7_Witness ==
    /\ pc = "done"
    /\ BlockInserted(a, b)
    /\ CommonPrefixLen(a, b) \in 1..(N - 1)
    /\ res = <<[A |-> CommonPrefixLen(a, b), B |-> CommonPrefixLen(a, b),
                Del |-> 0, Ins |-> 1]>>

(* C8: the point findMiddleSnake returns lies in its rectangle and on a    *)
(* shortest edit path of the rectangle.                                    *)
C8_MiddleSnake ==
    snake.called =>
        /\ snake.aoffset <= snake.x /\ snake.x <= snake.alimit
        /\ snake.boffset <= snake.y /\ snake.y <= snake.blimit
        /\ EditDistance(Slice(a, snake.aoffset, snake.x),
                        Slice(b, snake.boffset, snake.y))
             + EditDistance(Slice(a, snake.x, snake.alimit),
                            Slice(b, snake.y, snake.blimit))
             = EditDistance(Slice(a, snake.aoffset, snake.alimit),
                            Slice(b, snake.boffset, snake.blimit))

(* C9: the split point differs from both corners of the rectangle and      *)
(* both recursive calls get a rectangle with fewer rows + columns.         *)
C9_SplitShrinks ==
    snake.called =>
        LET size == (snake.alimit - snake.aoffset)
                        + (snake.blimit - snake.boffset)
        IN  /\ <<snake.x, snake.y>> # <<snake.aoffset, snake.boffset>>
            /\ <<snake.x, snake.y>> # <<snake.alimit, snake.blimit>>
            /\ (snake.x - snake.aoffset) + (snake.y - snake.boffset) < size
            /\ (snake.alimit - snake.x) + (snake.blimit - snake.y) < size

(* C10: the buffers are allocated at most once per run, with a length      *)
(* fixed by N and M, and every index used on them is within that length.   *)
C10_BufferIndices ==
    /\ allocs <= 1
    /\ (allocs = 0) = (forward = <<>>)
    /\ forward # <<>> =>
           /\ DOMAIN forward = 0..(2 * (N + M + 1) - 1)
           /\ DOMAIN reverse = DOMAIN forward
           /\ bufidx \subseteq DOMAIN forward
    /\ forward = <<>> => bufidx = {}

(* a second findMiddleSnake call of a run has reused the buffers, and the  *)
(* run has reached radius 2                                                *)
C10_Witness ==
    /\ allocs = 1
    /\ snake.called
    /\ snake.nth >= 2
    /\ snake.d >= 1
    /\ max + 2 \in bufidx
    /\ max - 2 \in bufidx

====
